---- MODULE Spec2Model ----
(***************************************************************************)
(* Model of MelodyAnalyzer4Jazz: the scale catalog, the note-set           *)
(* extraction, the scale matcher and the result list of                    *)
(* jazz_scale_app.py / jazz_scale_app_guitar.py, and the matcher and the   *)
(* printed ranking of scale_detector.py.                                   *)
(*                                                                         *)
(* Conventions                                                             *)
(*  - A Python string that the code splits on blanks is the sequence of    *)
(*    its blank-separated words: "C# Ionian (Major)" is                    *)
(*    <<"C#", "Ionian", "(Major)">>; f"{a} {b}" is Words(a) \o Words(b)    *)
(*    and s.split()[0] is Head(s).                                         *)
(*  - A Python dict is the sequence of its <<key, value>> items in         *)
(*    insertion order.                                                     *)
(*  - A score (a float m/n with 0 <= m <= n <= 12, possibly times 0.99)    *)
(*    is the integer score * ScoreUnit; every comparison the code makes    *)
(*    on such floats agrees with the comparison of these integers.         *)
(***************************************************************************)
EXTENDS Integers, Sequences, FiniteSets, Bags, TLC

\* ------------------------------------------------------------------------
\* Constants of the program
\* ------------------------------------------------------------------------

NOTE_NAMES == <<"C", "C#", "D", "D#", "E", "F", "F#", "G", "G#", "A", "A#", "B">>

\* a pattern table whose major scale is written up to the octave (12)
SCALE_PATTERNS_with_octave ==
  << << <<"Ionian", "(Major)">>,            <<0, 2, 4, 5, 7, 9, 11, 12>> >>,
     << <<"Dorian">>,                       <<0, 2, 3, 5, 7, 9, 10>> >>,
     << <<"Phrygian">>,                     <<0, 1, 3, 5, 7, 8, 10>> >>,
     << <<"Lydian">>,                       <<0, 2, 4, 6, 7, 9, 11>> >>,
     << <<"Mixo-lydian">>,                  <<0, 2, 4, 5, 7, 9, 10>> >>,
     << <<"Aeolian", "(Minor)">>,           <<0, 2, 3, 5, 7, 8, 10>> >>,
     << <<"Locrian">>,                      <<0, 1, 3, 5, 6, 8, 10>> >>,
     << <<"Altered">>,                      <<0, 1, 3, 4, 6, 8, 10>> >>,
     << <<"Combination", "of", "Diminished">>, <<0, 1, 3, 4, 6, 7, 9, 10>> >>,
     << <<"Diminished", "(W-H)">>,          <<0, 2, 3, 5, 6, 8, 9, 11>> >>,
     << <<"Wholetone">>,                    <<0, 2, 4, 6, 8, 10>> >>,
     << <<"Phrygian", "Dominant">>,         <<0, 1, 4, 5, 7, 8, 10>> >>,
     << <<"Lydian", "Dominant">>,           <<0, 2, 4, 6, 7, 9, 10>> >>,
     << <<"Major", "Pentatonic">>,          <<0, 2, 4, 7, 9>> >>,
     << <<"Minor", "Pentatonic">>,          <<0, 3, 5, 7, 10>> >>,
     << <<"Blues", "Scale">>,               <<0, 3, 5, 6, 7, 10>> >>,
     << <<"Bebop", "Dominant">>,            <<0, 2, 4, 5, 7, 9, 10, 11>> >>,
     << <<"Harmonic", "Minor">>,            <<0, 2, 3, 5, 7, 8, 11>> >> >>

\* SCALE_PATTERNS of jazz_scale_app.py (jazz_scale_app_guitar.py: identical)
SCALE_PATTERNS ==
  << << <<"Ionian", "(Major)">>,            <<0, 2, 4, 5, 7, 9, 11>> >>,
     << <<"Dorian">>,                       <<0, 2, 3, 5, 7, 9, 10>> >>,
     << <<"Phrygian">>,                     <<0, 1, 3, 5, 7, 8, 10>> >>,
     << <<"Lydian">>,                       <<0, 2, 4, 6, 7, 9, 11>> >>,
     << <<"Mixo-lydian">>,                  <<0, 2, 4, 5, 7, 9, 10>> >>,
     << <<"Aeolian", "(Minor)">>,           <<0, 2, 3, 5, 7, 8, 10>> >>,
     << <<"Locrian">>,                      <<0, 1, 3, 5, 6, 8, 10>> >>,
     << <<"Altered">>,                      <<0, 1, 3, 4, 6, 8, 10>> >>,
     << <<"Combination", "of", "Diminished">>, <<0, 1, 3, 4, 6, 7, 9, 10>> >>,
     << <<"Diminished", "(W-H)">>,          <<0, 2, 3, 5, 6, 8, 9, 11>> >>,
     << <<"Wholetone">>,                    <<0, 2, 4, 6, 8, 10>> >>,
     << <<"Phrygian", "Dominant">>,         <<0, 1, 4, 5, 7, 8, 10>> >>,
     << <<"Lydian", "Dominant">>,           <<0, 2, 4, 6, 7, 9, 10>> >>,
     << <<"Major", "Pentatonic">>,          <<0, 2, 4, 7, 9>> >>,
     << <<"Minor", "Pentatonic">>,          <<0, 3, 5, 7, 10>> >>,
     << <<"Blues", "Scale">>,               <<0, 3, 5, 6, 7, 10>> >>,
     << <<"Bebop", "Dominant">>,            <<0, 2, 4, 5, 7, 9, 10, 11>> >>,
     << <<"Harmonic", "Minor">>,            <<0, 2, 3, 5, 7, 8, 11>> >> >>

\* SCALE_PATTERNS of scale_detector.py
DETECTOR_SCALE_PATTERNS ==
  << << <<"Major">>,                        <<0, 2, 4, 5, 7, 9, 11>> >>,
     << <<"Natural", "Minor">>,             <<0, 2, 3, 5, 7, 8, 10>> >>,
     << <<"Harmonic", "Minor">>,            <<0, 2, 3, 5, 7, 8, 11>> >>,
     << <<"Melodic", "Minor">>,             <<0, 2, 3, 5, 7, 9, 11>> >>,
     << <<"Major", "Pentatonic">>,          <<0, 2, 4, 7, 9>> >>,
     << <<"Minor", "Pentatonic">>,          <<0, 3, 5, 7, 10>> >>,
     << <<"Ionian", "(Major)">>,            <<0, 2, 4, 5, 7, 9, 11>> >>,
     << <<"Dorian">>,                       <<0, 2, 3, 5, 7, 9, 10>> >>,
     << <<"Phrygian">>,                     <<0, 1, 3, 5, 7, 8, 10>> >>,
     << <<"Lydian">>,                       <<0, 2, 4, 6, 7, 9, 11>> >>,
     << <<"Mixo-lydian">>,                  <<0, 2, 4, 5, 7, 9, 10>> >>,
     << <<"Aeolian", "(Nat.Minor)">>,       <<0, 2, 3, 5, 7, 8, 10>> >>,
     << <<"Locrian">>,                      <<0, 1, 3, 5, 6, 8, 10>> >>,
     << <<"Chromatic">>,                    <<0, 1, 2, 3, 4, 5, 6, 7, 8, 9, 10, 11>> >>,
     << <<"Altered", "(Super", "Locrian)">>, <<0, 1, 3, 4, 6, 8, 10>> >>,
     << <<"Diminished", "(H-W)">>,          <<0, 1, 3, 4, 6, 7, 9, 10>> >>,
     << <<"Diminished", "(W-H)">>,          <<0, 2, 3, 5, 6, 8, 9, 11>> >>,
     << <<"Wholetone">>,                    <<0, 2, 4, 6, 8, 10>> >>,
     << <<"Phrygian", "Dominant", "(HMP5b)">>, <<0, 1, 4, 5, 7, 8, 10>> >> >>

\* The value None: a record, so that it compares (unequal) with the tuples
\* and lists it stands in for
None == [none |-> TRUE]

\* The first entry of the root combobox, "no root selected" (a Japanese
\* label in the source)
NO_ROOT == "(no root)"

\* ------------------------------------------------------------------------
\* Helpers: sequences, dicts, floats
\* ------------------------------------------------------------------------

Range(s) == {s[i] : i \in 1..Len(s)}

\* The dict that results from d[key] = val for the items <<key, val>> in
\* turn: a key keeps the position of its first item and has the value of
\* its last one.
DictOf(items) ==
  LET n == Len(items)
      keyed == [i \in 1..n |-> <<items[i][1], i>>]
      firsts == SelectSeq(keyed, LAMBDA e : \A j \in 1..(e[2] - 1) : items[j][1] # e[1])
      Last(key) == CHOOSE j \in 1..n :
                     /\ items[j][1] = key
                     /\ \A k \in (j + 1)..n : items[k][1] # key
  IN  [i \in 1..Len(firsts) |-> <<firsts[i][1], items[Last(firsts[i][1])][2]>>]

\* One float unit: scores are multiples of 1/ScoreUnit.  27720 = lcm(1..12)
\* makes m/n exact for n <= 12, the factor 100 makes "* 0.99" exact.
ScoreUnit == 27720 * 100

\* m / n as a float (n > 0)
Div(m, n) == (m * ScoreUnit) \div n

\* f"{score:.0%}": the percentage rounded to an integer, ties to even
Percent(score) ==
  LET q == (score * 100) \div ScoreUnit
      r == (score * 100) % ScoreUnit
  IN  IF 2 * r > ScoreUnit THEN q + 1
      ELSE IF 2 * r < ScoreUnit THEN q
      ELSE IF q % 2 = 0 THEN q ELSE q + 1

\* ------------------------------------------------------------------------
\* Scale catalog
\* ------------------------------------------------------------------------

\* a catalog keyed by the pattern name alone, without the root
generate_all_scales_by_pattern(patterns) ==
  LET np == Len(patterns)
      Item(root_midi, k) ==
        LET scale_notes == {(root_midi + patterns[k][2][j]) % 12 :
                              j \in 1..Len(patterns[k][2])}
        IN  <<patterns[k][1], scale_notes>>
  IN  DictOf([i \in 1..(12 * np) |-> Item((i - 1) \div np, ((i - 1) % np) + 1)])

\* a catalog whose scale notes are not reduced modulo 12
generate_all_scales_no_mod(patterns) ==
  LET np == Len(patterns)
      Item(root_midi, k) ==
        LET scale_notes == {root_midi + patterns[k][2][j] : j \in 1..Len(patterns[k][2])}
        IN  <<(<<NOTE_NAMES[root_midi + 1]>> \o patterns[k][1]), scale_notes>>
  IN  DictOf([i \in 1..(12 * np) |-> Item((i - 1) \div np, ((i - 1) % np) + 1)])

\* generate_all_scales(): the dict all_scales, filled by the loop over
\* root_midi in range(12) and, inside it, over SCALE_PATTERNS.items()
generate_all_scales(patterns) ==
  LET np == Len(patterns)
      Item(root_midi, k) ==
        LET root_name == NOTE_NAMES[root_midi + 1]
            scale_name == patterns[k][1]
            pattern == patterns[k][2]
            scale_notes == {(root_midi + pattern[j]) % 12 : j \in 1..Len(pattern)}
            full_scale_name == <<root_name>> \o scale_name
        IN  <<full_scale_name, scale_notes>>
  IN  DictOf([i \in 1..(12 * np) |-> Item((i - 1) \div np, ((i - 1) % np) + 1)])

\* the catalogs the two programs work with
AppScales == generate_all_scales(SCALE_PATTERNS)
DetectorScales == generate_all_scales(DETECTOR_SCALE_PATTERNS)

\* ------------------------------------------------------------------------
\* Sorting
\* ------------------------------------------------------------------------

Scores(items) == {items[i][2] : i \in 1..Len(items)}
MaxOf(S) == CHOOSE v \in S : \A w \in S : w <= v
MinOf(S) == CHOOSE v \in S : \A w \in S : v <= w
Reverse(s) == [i \in 1..Len(s) |-> s[Len(s) + 1 - i]]

RECURSIVE sorted_asc(_)
\* sorted(items, key=lambda item: item[1]): ascending, stable
sorted_asc(items) ==
  IF items = <<>> THEN <<>>
  ELSE LET mn == MinOf(Scores(items))
       IN  SelectSeq(items, LAMBDA it : it[2] = mn)
             \o sorted_asc(SelectSeq(items, LAMBDA it : it[2] # mn))

\* a sort that reverses an ascending sort: equal scores come out in
\* reverse insertion order
sorted_then_reversed(items) == Reverse(sorted_asc(items))

RECURSIVE sorted_desc(_)
\* sorted(items, key=lambda item: item[1], reverse=True): by score
\* descending; reverse=True keeps equal items in their original order
sorted_desc(items) ==
  IF items = <<>> THEN <<>>
  ELSE LET mx == MaxOf(Scores(items))
       IN  SelectSeq(items, LAMBDA it : it[2] = mx)
             \o sorted_desc(SelectSeq(items, LAMBDA it : it[2] # mx))

\* ascending list of a finite set of integers: sorted(list(S))
RECURSIVE SortedList(_)
SortedList(S) ==
  IF S = {} THEN <<>>
  ELSE LET mn == MinOf(S) IN <<mn>> \o SortedList(S \ {mn})

\* ------------------------------------------------------------------------
\* Note-set extraction (analyze_audio, first half)
\* ------------------------------------------------------------------------

\* The pitch stream (f0, voiced_probs) of librosa.pyin is a sequence of runs
\* [nan, midi, prob, n]: n consecutive frames whose f0 is NaN (nan) or a
\* frequency that hz_to_midi rounds to the note midi, with voicing
\* probability prob / 100.

\* the threshold of "voiced_probs > 0.5", in percent
CONFIDENCE_PERCENT == 50

\* the factor of "min_count = total_notes * 0.02", in percent
SUPPORT_PERCENT == 2

\* the argument of most_common(5)
TOP_COMMON == 5

\* a filter that keeps the frames at the threshold too
confident_f0_geq(frames) ==
  SelectSeq(SelectSeq(frames, LAMBDA fr : fr.prob >= CONFIDENCE_PERCENT),
            LAMBDA fr : ~fr.nan)

\* f0[voiced_probs > 0.5], then the NaN frames removed
confident_f0(frames) ==
  SelectSeq(SelectSeq(frames, LAMBDA fr : fr.prob > CONFIDENCE_PERCENT),
            LAMBDA fr : ~fr.nan)

\* len(confident_f0): the number of frames, not of runs
FrameCount(runs) ==
  LET RECURSIVE Sum(_)
      Sum(i) == IF i = 0 THEN 0 ELSE runs[i].n + Sum(i - 1)
  IN  Sum(Len(runs))

\* Counter(midi_notes): the dict note -> number of frames, keys in the
\* order of their first frame
Counter(runs) ==
  LET keys == DictOf([i \in 1..Len(runs) |-> <<runs[i].midi, 0>>])
  IN  [i \in 1..Len(keys) |->
         <<keys[i][1], FrameCount(SelectSeq(runs, LAMBDA r : r.midi = keys[i][1]))>>]

\* a most_common that takes the first k keys without sorting by count
most_common_unsorted(counts, k) ==
  SubSeq(counts, 1, IF Len(counts) < k THEN Len(counts) ELSE k)

\* midi_counts.most_common(k): by count descending, equal counts in
\* insertion order, the first k
most_common(counts, k) ==
  LET s == sorted_desc(counts)
  IN  SubSeq(s, 1, IF Len(s) < k THEN Len(s) ELSE k)

\* a support test that drops a note whose count equals the threshold
SupportedStrict(count, total_notes) == count * 100 > total_notes * SUPPORT_PERCENT

\* "count >= min_count" with min_count = total_notes * 0.02
Supported(count, total_notes) == count * 100 >= total_notes * SUPPORT_PERCENT

\* an extraction whose fallback replaces the notes but not the pitch classes
extract_notes_stale_pcs(frames) ==
  LET f0 == confident_f0(frames)
      midi_counts == Counter(f0)
      total_notes == FrameCount(f0)
      primary == {c[1] : c \in {d \in Range(midi_counts) : Supported(d[2], total_notes)}}
      primary_pcs == {n % 12 : n \in primary}
      top_common == most_common(midi_counts, TOP_COMMON)
      fallback == {c[1] : c \in Range(top_common)}
  IN  IF FrameCount(f0) = 0 THEN None
      ELSE IF primary_pcs = {} /\ total_notes > 0
           THEN [midi |-> fallback, pcs |-> primary_pcs]
           ELSE [midi |-> primary, pcs |-> primary_pcs]

\* analyze_audio up to melody_pitch_classes: None when no frame is left,
\* otherwise [midi |-> melody_midi_notes, pcs |-> melody_pitch_classes]
extract_notes(frames) ==
  LET f0 == confident_f0(frames)
      midi_counts == Counter(f0)
      total_notes == FrameCount(f0)
      primary == {c[1] : c \in {d \in Range(midi_counts) : Supported(d[2], total_notes)}}
      primary_pcs == {n % 12 : n \in primary}
      top_common == most_common(midi_counts, TOP_COMMON)
      fallback == {c[1] : c \in Range(top_common)}
  IN  IF FrameCount(f0) = 0 THEN None
      ELSE IF primary_pcs = {} /\ total_notes > 0
           THEN [midi |-> fallback, pcs |-> {n % 12 : n \in fallback}]
           ELSE [midi |-> primary, pcs |-> primary_pcs]

\* ------------------------------------------------------------------------
\* Scale matching (analyze_audio, second half)
\* ------------------------------------------------------------------------

\* a score taken relative to the union of melody and scale (Jaccard)
app_score_jaccard(melody_pitch_classes, scale_notes) ==
  LET match_count == Cardinality(melody_pitch_classes \cap scale_notes)
  IN  IF Cardinality(melody_pitch_classes) > 0
      THEN (match_count * ScoreUnit)
             \div Cardinality(melody_pitch_classes \cup scale_notes)
      ELSE 0

\* a score taken relative to the size of the scale instead of the melody
app_score_by_scale(melody_pitch_classes, scale_notes) ==
  LET match_count == Cardinality(melody_pitch_classes \cap scale_notes)
  IN  IF Cardinality(melody_pitch_classes) > 0
      THEN Div(match_count, Cardinality(scale_notes))
      ELSE 0

\* the score of one catalog entry in analyze_audio
app_score(melody_pitch_classes, scale_notes) ==
  LET match_count == Cardinality(melody_pitch_classes \cap scale_notes)
  IN  IF Cardinality(melody_pitch_classes) > 0
      THEN Div(match_count, Cardinality(melody_pitch_classes))
      ELSE 0

\* the scores dict filled by the loop over all_scales.items()
app_scores(melody_pitch_classes, all_scales) ==
  [i \in 1..Len(all_scales) |->
     <<all_scales[i][1], app_score(melody_pitch_classes, all_scales[i][2])>>]

\* detected_notes: the names of the performed pitch classes, C first
detected_notes(melody_midi_notes) ==
  LET pcs == SortedList({n % 12 : n \in melody_midi_notes})
  IN  [i \in 1..Len(pcs) |-> NOTE_NAMES[pcs[i] + 1]]

\* the tuple analyze_audio returns once the notes are extracted
match_scales(melody_midi_notes, melody_pitch_classes) ==
  << sorted_desc(app_scores(melody_pitch_classes, AppScales)),
     detected_notes(melody_midi_notes),
     melody_midi_notes >>

\* analyze_audio(wav_path, progress_callback) on the pitch stream of the file
analyze_audio(frames) ==
  LET ex == extract_notes(frames)
  IN  IF ex = None THEN <<None, "no valid pitch detected", None>>
      ELSE match_scales(ex.midi, ex.pcs)

\* ------------------------------------------------------------------------
\* scale_detector.py
\* ------------------------------------------------------------------------

\* the default of confidence_threshold, in percent
DETECTOR_CONFIDENCE_PERCENT == 50

\* the factor of "min_count = most_common(1)[0][1] * 0.2", in percent
DETECTOR_SUPPORT_PERCENT == 20

\* the default of top_n
TOP_N == 5

\* extract_pitch_classes_from_wav: the set of the pitch classes whose frame
\* count is at least 0.2 times the count of the most frequent one; the empty
\* set when no frame passes the filter
extract_pitch_classes_from_wav(frames) ==
  LET f0 == SelectSeq(SelectSeq(frames, LAMBDA fr : fr.prob > DETECTOR_CONFIDENCE_PERCENT),
                      LAMBDA fr : ~fr.nan)
      pitch_classes == [i \in 1..Len(f0) |-> [f0[i] EXCEPT !.midi = f0[i].midi % 12]]
      note_counts == Counter(pitch_classes)
      top == most_common(note_counts, 1)[1][2]
  IN  IF FrameCount(f0) = 0 THEN {}
      ELSE {c[1] : c \in {d \in Range(note_counts) :
                            d[2] * 100 >= top * DETECTOR_SUPPORT_PERCENT}}

\* "'Chromatic' in scale_name": no word of a catalog name holds Chromatic
\* as a proper part, so the substring test is a test on the words
HasChromatic(scale_name) == \E i \in 1..Len(scale_name) : scale_name[i] = "Chromatic"

\* the score of one catalog entry in find_matching_scales
detector_score(melody_pitch_classes, scale_name, scale_notes) ==
  LET match_count == Cardinality(melody_pitch_classes \cap scale_notes)
      score == IF Cardinality(melody_pitch_classes) > 0
               THEN Div(match_count, Cardinality(melody_pitch_classes))
               ELSE 0
  IN  IF HasChromatic(scale_name) THEN (score * 99) \div 100 ELSE score

\* a find_matching_scales without the early return for an empty melody
find_matching_scales_unguarded(melody_pitch_classes, all_scales) ==
  sorted_desc([i \in 1..Len(all_scales) |->
                 <<all_scales[i][1],
                   detector_score(melody_pitch_classes, all_scales[i][1],
                                  all_scales[i][2])>>])

\* find_matching_scales(melody_pitch_classes, all_scales)
find_matching_scales(melody_pitch_classes, all_scales) ==
  IF melody_pitch_classes = {} THEN <<>>
  ELSE sorted_desc([i \in 1..Len(all_scales) |->
                      <<all_scales[i][1],
                        detector_score(melody_pitch_classes, all_scales[i][1],
                                       all_scales[i][2])>>])

\* The print loop of analyze_melody_scale: the lines <<rank, scale_name,
\* percentage>> it prints.  Every pass that does not break prints one line,
\* so at entry i displayed_count is i - 1 and last_score is the score of
\* entry i - 1 (-1 at the first); the loop stops at the first entry that
\* meets one of the two break tests, and rank is displayed_count + 1 of the
\* last entry whose score differed from the one before it.
print_top(matching_scales) ==
  LET n == Len(matching_scales)
      score(i) == matching_scales[i][2]
      last_score(i) == IF i = 1 THEN -1 ELSE score(i - 1)
      Break(i) == \/ (i - 1 >= TOP_N /\ score(i) < last_score(i))
                  \/ score(i) <= 0
      stop == IF \E i \in 1..n : Break(i)
              THEN MinOf({i \in 1..n : Break(i)})
              ELSE n + 1
      rank(i) == MaxOf({j \in 1..i : score(j) # last_score(j)})
  IN  [i \in 1..(stop - 1) |->
         <<rank(i), matching_scales[i][1], Percent(score(i))>>]

\* ------------------------------------------------------------------------
\* The result list of the app (update_result_list)
\* ------------------------------------------------------------------------

\* the literal of "display_count >= 20"
DISPLAY_LIMIT == 20

\* the literal of "score < 0.5", as a float
SCORE_FLOOR == Div(1, 2)

\* a dense ranking: one more than the rank before when the score changes
row_rank_dense(score, last_score, display_count, rank) ==
  IF score # last_score THEN rank + 1 ELSE rank

\* a ranking by position: every row gets its own number
row_rank_position(score, last_score, display_count, rank) == display_count + 1

\* "if score != last_score: rank = display_count + 1": the rank of the row
\* about to be inserted
row_rank(score, last_score, display_count, rank) ==
  IF score # last_score THEN display_count + 1 ELSE rank

\* a floor that also cuts an entry scoring exactly 0.5
below_floor_inclusive(score) == score <= SCORE_FLOOR

\* the test "score < 0.5" of the break
below_floor(score) == score < SCORE_FLOOR

\* a root test by prefix (name.startswith(target_root)), which takes C# for C
root_differs_by_prefix(scale_root, target_root) ==
  ~(\/ scale_root = target_root
    \/ <<target_root, scale_root>> \in
         {<<"C", "C#">>, <<"D", "D#">>, <<"F", "F#">>, <<"G", "G#">>, <<"A", "A#">>})

\* "scale_root != target_root" for a selected root
root_differs(scale_root, target_root) == scale_root # target_root

RECURSIVE InsertLoop(_, _, _, _, _)
\* the for loop of update_result_list over the entries it does not skip,
\* from entry i on: the rows <<rank, name, percentage>> it inserts
InsertLoop(scales, i, display_count, rank, last_score) ==
  IF i > Len(scales) THEN <<>>
  ELSE LET name == scales[i][1]
           score == scales[i][2]
           new_rank == row_rank(score, last_score, display_count, rank)
       IN  IF display_count >= DISPLAY_LIMIT \/ below_floor(score) THEN <<>>
           ELSE << <<new_rank, name, Percent(score)>> >>
                  \o InsertLoop(scales, i + 1, display_count + 1, new_rank, score)

\* the entries the loop does not skip with "continue": all of them when no
\* root is selected, else those whose name.split()[0] is the selected root
not_skipped(scales, target_root) ==
  SelectSeq(scales, LAMBDA item :
    ~(target_root # NO_ROOT /\ root_differs(Head(item[1]), target_root)))

\* the rows update_result_list shows for a ranked list and a selected root
result_rows(scales, target_root) ==
  InsertLoop(not_skipped(scales, target_root), 1, 0, 0, -1)

\* ------------------------------------------------------------------------
\* Degree display
\* ------------------------------------------------------------------------

\* INTERVAL_MAP: the degree names of the intervals 0..11
INTERVAL_MAP ==
  <<"R", "b9", "9", "b3", "3", "11", "#11/b5", "5", "b13", "13", "b7", "7">>

\* INTERVAL_MAP.get(interval, "?")
interval_get(interval) ==
  IF interval \in 0..11 THEN INTERVAL_MAP[interval + 1] ELSE "?"

\* d.get(key, default) for a dict d
dict_get(d, key, default) ==
  IF \E i \in 1..Len(d) : d[i][1] = key
  THEN d[CHOOSE i \in 1..Len(d) : d[i][1] = key][2]
  ELSE default

\* a degree counted from the note down to the root
degree_part_reversed(midi_note, root_idx) ==
  LET pitch_class == midi_note % 12
      interval == (root_idx - pitch_class) % 12
  IN  <<NOTE_NAMES[pitch_class + 1], (midi_note \div 12) - 1, interval_get(interval)>>

\* a degree part whose octave is the bare quotient by 12
degree_part_div_octave(midi_note, root_idx) ==
  LET pitch_class == midi_note % 12
      interval == (pitch_class - root_idx) % 12
  IN  <<NOTE_NAMES[pitch_class + 1], midi_note \div 12, interval_get(interval)>>

\* one pass of the loop of update_degree_display: the part
\* f"{note_name}{octave}({degree_name})" as <<note_name, octave, degree_name>>
degree_part(midi_note, root_idx) ==
  LET pitch_class == midi_note % 12
      note_name == NOTE_NAMES[pitch_class + 1]
      octave == (midi_note \div 12) - 1
      interval == (pitch_class - root_idx) % 12
      degree_name == interval_get(interval)
  IN  <<note_name, octave, degree_name>>

\* a degree display that loops over the pitch classes instead of the notes
update_degree_display_by_pitch_class(full_scale_name, input_midi) ==
  LET root_str == Head(full_scale_name)
      root_idx == (CHOOSE i \in 1..12 : NOTE_NAMES[i] = root_str) - 1
      sorted_midi_notes == SortedList({n % 12 : n \in input_midi})
  IN  [kind |-> "degrees", scale |-> full_scale_name,
       parts |-> [i \in 1..Len(sorted_midi_notes) |->
                    degree_part(sorted_midi_notes[i], root_idx)]]

\* update_degree_display(full_scale_name): the text the degree label gets,
\* as the scale name and the parts; NOTE_NAMES.index raises for a root that
\* is no note name, and the label then reports the failure
update_degree_display(full_scale_name, input_midi) ==
  LET root_str == Head(full_scale_name)
      root_idx == (CHOOSE i \in 1..12 : NOTE_NAMES[i] = root_str) - 1
      sorted_midi_notes == SortedList(input_midi)
  IN  IF root_str \notin Range(NOTE_NAMES)
      THEN [kind |-> "failed", scale |-> <<>>, parts |-> <<>>]
      ELSE [kind |-> "degrees", scale |-> full_scale_name,
            parts |-> [i \in 1..Len(sorted_midi_notes) |->
                         degree_part(sorted_midi_notes[i], root_idx)]]

\* ------------------------------------------------------------------------
\* Scale preview
\* ------------------------------------------------------------------------

\* start_note of VirtualKeyboard (C3), also the base note of
\* GuitarFretboard.play_sequence
START_NOTE == 48

\* VirtualKeyboard.num_octaves and total_keys
NUM_OCTAVES == 2
TOTAL_KEYS == 12 * NUM_OCTAVES

\* GuitarFretboard.preload_sounds: sound files for range(start_note, end_note)
GUITAR_START_NOTE == 40
GUITAR_END_NOTE == 40 + 60

\* the names of the two apps
PIANO == "jazz_scale_app"
GUITAR == "jazz_scale_app_guitar"

\* VirtualKeyboard.play_sequence(indices): the notes sounded, in order; key
\* i sounds the note start_note + i, an index outside the keys is skipped
keyboard_play_sequence(indices) ==
  LET keys == SelectSeq(indices, LAMBDA idx : 0 <= idx /\ idx < TOTAL_KEYS)
  IN  [i \in 1..Len(keys) |-> START_NOTE + keys[i]]

\* GuitarFretboard.play_sequence(indices): the notes sounded, in order; a
\* note without a sound file is skipped
fretboard_play_sequence(indices) ==
  LET midi_notes == [i \in 1..Len(indices) |-> START_NOTE + indices[i]]
  IN  SelectSeq(midi_notes,
                LAMBDA midi_note : /\ GUITAR_START_NOTE <= midi_note
                                   /\ midi_note < GUITAR_END_NOTE)

\* play_selected_scale of the two apps up to the play_sequence call: the
\* sequence handed over, or <<>> when the method returns early or raises
\* (a name of one word, an unknown pattern, an unknown root)
preview_sequence(app, full_scale_name) ==
  LET root_str == Head(full_scale_name)
      pattern_name == Tail(full_scale_name)
      pattern == dict_get(SCALE_PATTERNS, pattern_name, <<>>)
      start_key_index == (CHOOSE i \in 1..12 : NOTE_NAMES[i] = root_str) - 1
  IN  IF Len(full_scale_name) < 2 \/ pattern = <<>>
      THEN <<>>
      ELSE IF app = GUITAR
      THEN pattern \o <<12>>
      ELSE IF root_str \notin Range(NOTE_NAMES)
      THEN <<>>
      ELSE [i \in 1..Len(pattern) |-> start_key_index + pattern[i]]
             \o <<start_key_index + 12>>

\* ------------------------------------------------------------------------
\* State
\* ------------------------------------------------------------------------

VARIABLES
  file_path,             \* JazzScaleApp.file_path: the pitch stream of the file
  root_var,              \* the root combobox: NO_ROOT or a note name
  last_analysis_result,  \* None or the tuple analyze_audio returned
  current_input_midi,    \* the performed notes shown on the keyboard
  tree,                  \* the rows of the result list
  keyboard,              \* the arguments of the last highlight_keys call
  threads,               \* the _process_analysis threads in flight
  all_scales_dict,       \* JazzScaleApp.all_scales_dict: the catalog
  lbl_degree_info,       \* the degree label under the keyboard
  btn_preview_scale,     \* the state of the preview button
  is_recording,          \* JazzScaleApp.is_recording
  rec_frames,            \* len(self.frames): the chunks recorded so far
  btn_rec_start,         \* the state of the record button
  btn_rec_stop,          \* the state of the stop button
  btn_select,            \* the state of the open-file button
  rec_threads,           \* the _record_thread threads in flight
  played,                \* the last preview: the scale and the notes sounded
  source,                \* the program a function is taken from
  frames,                \* a pitch stream handed to an extraction function
  melody,                \* a set of performed notes handed to a matcher
  pc,                    \* how far the function under study has got
  returned,              \* what it returned
  printed                \* the ranking analyze_melody_scale printed

vars == << file_path, root_var, last_analysis_result, current_input_midi, tree,
           keyboard, threads, all_scales_dict, lbl_degree_info, btn_preview_scale,
           is_recording, rec_frames, btn_rec_start, btn_rec_stop, btn_select,
           rec_threads, played,
           source, frames, melody, pc, returned, printed >>

app_vars == << file_path, root_var, last_analysis_result, current_input_midi,
               tree, keyboard, threads, all_scales_dict, lbl_degree_info,
               btn_preview_scale, is_recording, rec_frames, btn_rec_start,
               btn_rec_stop, btn_select, rec_threads, played >>

\* the widgets on_scale_selected and run_analysis configure
select_vars == << lbl_degree_info, btn_preview_scale >>

\* the recorder: what start_recording, stop_recording and _record_thread use
rec_vars == << is_recording, rec_frames, btn_rec_start, btn_rec_stop, btn_select,
              rec_threads >>

fun_vars == << source, frames, melody, pc, returned, printed >>

\* ------------------------------------------------------------------------
\* Bounds and inputs
\* ------------------------------------------------------------------------

\* the most _process_analysis threads in flight at once
MaxThreads == 2

\* the most runs of a pitch stream handed to an extraction function
MaxRuns == 2

\* the most distinct notes of a melody handed to a matcher
MaxMelody == 4

\* the notes a melody handed to a matcher is drawn from: one octave
MelodyNotes == 60..71

\* the runs a pitch stream handed to an extraction function is made of
RunSet ==
  [nan : {FALSE}, midi : {60, 61}, prob : {20, 50, 90}, n : {1, 49, 99, 100}]
    \cup [nan : {TRUE}, midi : {0}, prob : {90}, n : {1}]

\* the pitch streams of the files the user can open: a file with no voiced
\* frame, a C major triad, and C with C#
AudioFiles ==
  { << [nan |-> TRUE, midi |-> 0, prob |-> 90, n |-> 3],
       [nan |-> FALSE, midi |-> 60, prob |-> 20, n |-> 5] >>,
    << [nan |-> FALSE, midi |-> 60, prob |-> 90, n |-> 4],
       [nan |-> FALSE, midi |-> 64, prob |-> 90, n |-> 4],
       [nan |-> FALSE, midi |-> 67, prob |-> 90, n |-> 4] >>,
    << [nan |-> FALSE, midi |-> 60, prob |-> 90, n |-> 2],
       [nan |-> FALSE, midi |-> 61, prob |-> 90, n |-> 2] >> }

Roots == {NO_ROOT} \cup Range(NOTE_NAMES)

\* the most notes of a performed-note set handed to the degree display
MaxPerformed == 2

\* the notes such a set is drawn from: all pitch classes, G3 and G#3 in two
\* octaves
DegreeNotes == 55..68

PerformedSets == {m \in SUBSET DegreeNotes : Cardinality(m) <= MaxPerformed}

\* the scale names handed to the degree display: every root with the first
\* and with the last pattern
DegreeNames ==
  {<<NOTE_NAMES[r]>> \o SCALE_PATTERNS[k][1] : r \in 1..12, k \in {1, Len(SCALE_PATTERNS)}}

\* the most chunks a recording appends to self.frames
MaxChunks == 2

\* the most _record_thread threads in flight at once
MaxRecorders == 2

\* the user selects one of the first MaxSelect rows of the result list
MaxSelect == 1

\* the notes pyin can report: fmin is A1 and fmax is C6
NOTE_LOW == 33
NOTE_HIGH == 84

\* a wide stream leaves out at most this many of the notes pyin can report
MaxFewer == 1

\* the most frames a note of a wide stream has
MaxCount == 2

\* A wide stream: k distinct notes, upwards from A1 or downwards from C6, one
\* run each; the last j notes (all, if j > k) have c1 frames each and the
\* others c2; before
\* them, if pre, a run at exactly 0.5 and a run without frequency.
WideStream(k, j, c1, c2, down, pre) ==
  (IF pre THEN << [nan |-> FALSE, midi |-> NOTE_LOW, prob |-> 50, n |-> 200],
                  [nan |-> TRUE, midi |-> 0, prob |-> 90, n |-> 3] >>
   ELSE <<>>)
  \o [i \in 1..k |->
        [nan |-> FALSE,
         midi |-> IF down THEN NOTE_HIGH - (i - 1) ELSE NOTE_LOW + (i - 1),
         prob |-> 90,
         n |-> IF i > k - j THEN c1 ELSE c2]]

WideStreams ==
  LET all == NOTE_HIGH - NOTE_LOW + 1
  IN  {WideStream(k, j, c[1], c[2], b[1], b[2]) :
         k \in (all - MaxFewer)..all, j \in 0..all,
         c \in (1..MaxCount) \X (1..MaxCount), b \in BOOLEAN \X BOOLEAN}

Streams(k) == UNION {[1..m -> RunSet] : m \in 0..k}

Melodies(k) == {m \in SUBSET MelodyNotes : Cardinality(m) <= k}

\* ------------------------------------------------------------------------
\* The app (JazzScaleApp; JazzGuitarApp is the same code)
\* ------------------------------------------------------------------------

\* nothing previewed yet
NO_PREVIEW == [scale |-> <<>>, notes |-> <<>>]

\* the text the degree label has before a scale is selected
LABEL_HINT == [kind |-> "hint", scale |-> <<>>, parts |-> <<>>]

AppInit ==
  /\ file_path = None
  /\ root_var = NO_ROOT
  /\ last_analysis_result = None
  /\ current_input_midi = {}
  /\ tree = <<>>
  /\ keyboard = [input |-> {}, scale |-> {}]
  /\ threads = EmptyBag
  /\ all_scales_dict = AppScales
  /\ lbl_degree_info = LABEL_HINT
  /\ btn_preview_scale = "disabled"
  /\ is_recording = FALSE
  /\ rec_frames = 0
  /\ btn_rec_start = "normal"
  /\ btn_rec_stop = "disabled"
  /\ btn_select = "normal"
  /\ rec_threads = EmptyBag
  /\ played = NO_PREVIEW

FunIdle ==
  /\ source = "jazz_scale_app"
  /\ frames = <<>>
  /\ melody = {}
  /\ pc = "idle"
  /\ returned = None
  /\ printed = <<>>

Init == AppInit /\ FunIdle

\* an update_result_list that does not clear the list before it fills it
update_result_list_append(result, target_root, input_midi) ==
  IF result = None
  THEN UNCHANGED <<tree, keyboard>>
  ELSE /\ tree' = tree \o result_rows(result[1], target_root)
       /\ keyboard' = [input |-> input_midi, scale |-> {}]

\* update_result_list() with the stored result and the selected root given
update_result_list(result, target_root, input_midi) ==
  IF result = None
  THEN UNCHANGED <<tree, keyboard>>
  ELSE /\ tree' = result_rows(result[1], target_root)
       /\ keyboard' = [input |-> input_midi, scale |-> {}]

\* a run_analysis() that keeps the stored result of the run before
run_analysis_keeping_result ==
  /\ tree' = <<>>
  /\ keyboard' = [input |-> {}, scale |-> {}]
  /\ last_analysis_result' = last_analysis_result
  /\ btn_preview_scale' = "disabled"
  /\ lbl_degree_info' = LABEL_HINT
  /\ threads' = threads (+) SetToBag({[at |-> "analyze", result |-> <<>>]})

\* run_analysis(): clear the display and the stored result, start a thread
run_analysis ==
  /\ tree' = <<>>
  /\ keyboard' = [input |-> {}, scale |-> {}]
  /\ last_analysis_result' = None
  /\ btn_preview_scale' = "disabled"
  /\ lbl_degree_info' = LABEL_HINT
  /\ threads' = threads (+) SetToBag({[at |-> "analyze", result |-> <<>>]})

\* select_file(): the user picks the file f
select_file(f) ==
  /\ BagCardinality(threads) < MaxThreads
  /\ file_path' = f
  /\ run_analysis
  /\ UNCHANGED <<root_var, current_input_midi, all_scales_dict>>
  /\ UNCHANGED <<rec_vars, played>>
  /\ UNCHANGED fun_vars

\* the user picks r in the root combobox: on_root_changed(event)
on_root_changed(r) ==
  /\ root_var' = r
  /\ update_result_list(last_analysis_result, r, current_input_midi)
  /\ UNCHANGED <<file_path, last_analysis_result, current_input_midi, threads>>
  /\ UNCHANGED <<all_scales_dict, select_vars>>
  /\ UNCHANGED <<rec_vars, played>>
  /\ UNCHANGED fun_vars

\* thread t moves to position at with the local result
Moved(t, at, result) ==
  (threads (-) SetToBag({t})) (+) SetToBag({[at |-> at, result |-> result]})

\* _process_analysis: the call of analyze_audio and the test of its result
process_analyze(t) ==
  /\ t.at = "analyze"
  /\ LET result == analyze_audio(file_path)
     IN  threads' = IF result[1] = None
                    THEN threads (-) SetToBag({t})
                    ELSE Moved(t, "store_result", result)
  /\ UNCHANGED <<file_path, root_var, last_analysis_result, current_input_midi,
                 tree, keyboard>>
  /\ UNCHANGED <<all_scales_dict, select_vars>>
  /\ UNCHANGED <<rec_vars, played>>
  /\ UNCHANGED fun_vars

\* _process_analysis: self.last_analysis_result = result
process_store_result(t) ==
  /\ t.at = "store_result"
  /\ last_analysis_result' = t.result
  /\ threads' = Moved(t, "store_midi", t.result)
  /\ UNCHANGED <<file_path, root_var, current_input_midi, tree, keyboard>>
  /\ UNCHANGED <<all_scales_dict, select_vars>>
  /\ UNCHANGED <<rec_vars, played>>
  /\ UNCHANGED fun_vars

\* _process_analysis: self.current_input_midi = midi_notes
process_store_midi(t) ==
  /\ t.at = "store_midi"
  /\ current_input_midi' = t.result[3]
  /\ threads' = Moved(t, "update", t.result)
  /\ UNCHANGED <<file_path, root_var, last_analysis_result, tree, keyboard>>
  /\ UNCHANGED <<all_scales_dict, select_vars>>
  /\ UNCHANGED <<rec_vars, played>>
  /\ UNCHANGED fun_vars

\* _process_analysis: self.update_result_list(), the end of the thread
process_update(t) ==
  /\ t.at = "update"
  /\ update_result_list(last_analysis_result, root_var, current_input_midi)
  /\ threads' = threads (-) SetToBag({t})
  /\ UNCHANGED <<file_path, root_var, last_analysis_result, current_input_midi>>
  /\ UNCHANGED <<all_scales_dict, select_vars>>
  /\ UNCHANGED <<rec_vars, played>>
  /\ UNCHANGED fun_vars

Next ==
  \/ \E f \in AudioFiles : select_file(f)
  \/ \E r \in Roots : on_root_changed(r)
  \/ \E t \in BagToSet(threads) : process_analyze(t)
  \/ \E t \in BagToSet(threads) : process_store_result(t)
  \/ \E t \in BagToSet(threads) : process_store_midi(t)
  \/ \E t \in BagToSet(threads) : process_update(t)

Spec == Init /\ [][Next]_vars

\* ------------------------------------------------------------------------
\* The app with the selection of scales, one analysis at a time
\* ------------------------------------------------------------------------

\* a handler that keeps of the performed notes those of the selected scale
on_scale_selected_filtering(item) ==
  /\ item # 0
  /\ LET full_scale_name == tree[item][2]
         scale_notes == dict_get(all_scales_dict, full_scale_name, {})
     IN  /\ current_input_midi' = {n \in current_input_midi : n % 12 \in scale_notes}
         /\ keyboard' = [input |-> current_input_midi', scale |-> scale_notes]
         /\ lbl_degree_info' = update_degree_display(full_scale_name, current_input_midi')
  /\ btn_preview_scale' = "normal"
  /\ UNCHANGED <<file_path, root_var, last_analysis_result, tree, threads,
                 all_scales_dict>>
  /\ UNCHANGED <<rec_vars, played>>
  /\ UNCHANGED fun_vars

\* on_scale_selected(event) with row item of the result list selected, or
\* with nothing selected (item = 0)
on_scale_selected(item) ==
  /\ IF item = 0
     THEN /\ btn_preview_scale' = "disabled"
          /\ UNCHANGED <<keyboard, lbl_degree_info>>
     ELSE LET full_scale_name == tree[item][2]
              scale_notes == dict_get(all_scales_dict, full_scale_name, {})
          IN  /\ btn_preview_scale' = "normal"
              /\ keyboard' = [input |-> current_input_midi, scale |-> scale_notes]
              /\ lbl_degree_info' = update_degree_display(full_scale_name,
                                                          current_input_midi)
  /\ UNCHANGED <<file_path, root_var, last_analysis_result, current_input_midi,
                 tree, threads, all_scales_dict>>
  /\ UNCHANGED <<rec_vars, played>>
  /\ UNCHANGED fun_vars

\* select_file() while no analysis is running
select_file_idle(f) == threads = EmptyBag /\ select_file(f)

NextSelect ==
  \/ \E f \in AudioFiles : select_file_idle(f)
  \/ \E r \in Roots : on_root_changed(r)
  \/ \E item \in 0..(IF Len(tree) < MaxSelect THEN Len(tree) ELSE MaxSelect) :
       on_scale_selected(item)
  \/ \E t \in BagToSet(threads) : process_analyze(t)
  \/ \E t \in BagToSet(threads) : process_store_result(t)
  \/ \E t \in BagToSet(threads) : process_store_midi(t)
  \/ \E t \in BagToSet(threads) : process_update(t)

SpecSelect == Init /\ [][NextSelect]_vars

\* ------------------------------------------------------------------------
\* The degree display on every performed-note set of at most MaxPerformed
\* notes
\* ------------------------------------------------------------------------

\* ------------------------------------------------------------------------
\* Recording: start_recording, stop_recording and the steps of
\* _record_thread, next to the file dialog and the analysis threads
\* ------------------------------------------------------------------------

\* recording thread t moves to position at
RecMoved(t, at) == (rec_threads (-) SetToBag({t})) (+) SetToBag({[at |-> at]})

\* start_recording(): the record button is pressed
start_recording ==
  /\ btn_rec_start = "normal"
  /\ BagCardinality(rec_threads) < MaxRecorders
  /\ is_recording' = TRUE
  /\ rec_frames' = 0
  /\ btn_rec_start' = "disabled"
  /\ btn_rec_stop' = "normal"
  /\ btn_select' = "disabled"
  /\ rec_threads' = rec_threads (+) SetToBag({[at |-> "open"]})
  /\ UNCHANGED <<file_path, root_var, last_analysis_result, current_input_midi,
                 tree, keyboard, threads, all_scales_dict, select_vars, played>>
  /\ UNCHANGED fun_vars

\* stop_recording(): the stop button is pressed
stop_recording ==
  /\ btn_rec_stop = "normal"
  /\ is_recording' = FALSE
  /\ UNCHANGED <<rec_frames, btn_rec_start, btn_rec_stop, btn_select, rec_threads>>
  /\ UNCHANGED <<file_path, root_var, last_analysis_result, current_input_midi,
                 tree, keyboard, threads, all_scales_dict, select_vars, played>>
  /\ UNCHANGED fun_vars

\* _record_thread: pyaudio.PyAudio() and p.open(...), which open the
\* microphone or raise
record_open(t) ==
  /\ t.at = "open"
  /\ \E raised \in BOOLEAN :
       rec_threads' = RecMoved(t, IF raised THEN "except" ELSE "loop")
  /\ UNCHANGED <<is_recording, rec_frames, btn_rec_start, btn_rec_stop, btn_select>>
  /\ UNCHANGED <<file_path, root_var, last_analysis_result, current_input_midi,
                 tree, keyboard, threads, all_scales_dict, select_vars, played>>
  /\ UNCHANGED fun_vars

\* _record_thread: one test of while self.is_recording, with stream.read
\* and self.frames.append(data) when it holds (read may raise), and
\* stop_stream, close and terminate when it does not
record_read(t) ==
  /\ t.at = "loop"
  /\ IF is_recording
     THEN \E raised \in BOOLEAN :
            IF raised
            THEN rec_threads' = RecMoved(t, "except") /\ UNCHANGED rec_frames
            ELSE /\ rec_frames < MaxChunks
                 /\ rec_frames' = rec_frames + 1
                 /\ UNCHANGED rec_threads
     ELSE rec_threads' = RecMoved(t, "save") /\ UNCHANGED rec_frames
  /\ UNCHANGED <<is_recording, btn_rec_start, btn_rec_stop, btn_select>>
  /\ UNCHANGED <<file_path, root_var, last_analysis_result, current_input_midi,
                 tree, keyboard, threads, all_scales_dict, select_vars, played>>
  /\ UNCHANGED fun_vars

\* _record_thread: the wave file is written, or wave.open or a write raises
record_save(t) ==
  /\ t.at = "save"
  /\ \E raised \in BOOLEAN :
       rec_threads' = RecMoved(t, IF raised THEN "except" ELSE "saved")
  /\ UNCHANGED <<is_recording, rec_frames, btn_rec_start, btn_rec_stop, btn_select>>
  /\ UNCHANGED <<file_path, root_var, last_analysis_result, current_input_midi,
                 tree, keyboard, threads, all_scales_dict, select_vars, played>>
  /\ UNCHANGED fun_vars

\* _record_thread: self.file_path = save_path and the buttons after it; f
\* is the pitch stream of what was recorded
record_saved(t, f) ==
  /\ t.at = "saved"
  /\ file_path' = f
  /\ btn_rec_start' = "normal"
  /\ btn_rec_stop' = "disabled"
  /\ btn_select' = "normal"
  /\ rec_threads' = RecMoved(t, "run_analysis")
  /\ UNCHANGED <<is_recording, rec_frames>>
  /\ UNCHANGED <<root_var, last_analysis_result, current_input_midi, tree,
                 keyboard, threads, all_scales_dict, select_vars, played>>
  /\ UNCHANGED fun_vars

\* _record_thread: self.run_analysis(), the end of the thread
record_run_analysis(t) ==
  /\ t.at = "run_analysis"
  /\ BagCardinality(threads) < MaxThreads
  /\ run_analysis
  /\ rec_threads' = rec_threads (-) SetToBag({t})
  /\ UNCHANGED <<is_recording, rec_frames, btn_rec_start, btn_rec_stop, btn_select>>
  /\ UNCHANGED <<file_path, root_var, current_input_midi, all_scales_dict, played>>
  /\ UNCHANGED fun_vars

\* _record_thread: the except branch, the end of the thread
record_except(t) ==
  /\ t.at = "except"
  /\ is_recording' = FALSE
  /\ btn_rec_start' = "normal"
  /\ btn_rec_stop' = "disabled"
  /\ rec_threads' = rec_threads (-) SetToBag({t})
  /\ UNCHANGED <<rec_frames, btn_select>>
  /\ UNCHANGED <<file_path, root_var, last_analysis_result, current_input_midi,
                 tree, keyboard, threads, all_scales_dict, select_vars, played>>
  /\ UNCHANGED fun_vars

\* select_file() while the open-file button is enabled
select_file_enabled(f) == btn_select = "normal" /\ select_file(f)

NextRecord ==
  \/ start_recording
  \/ stop_recording
  \/ \E t \in BagToSet(rec_threads) : record_open(t)
  \/ \E t \in BagToSet(rec_threads) : record_read(t)
  \/ \E t \in BagToSet(rec_threads) : record_save(t)
  \/ \E t \in BagToSet(rec_threads), f \in AudioFiles : record_saved(t, f)
  \/ \E t \in BagToSet(rec_threads) : record_run_analysis(t)
  \/ \E t \in BagToSet(rec_threads) : record_except(t)
  \/ \E f \in AudioFiles : select_file_enabled(f)
  \/ \E t \in BagToSet(threads) : process_analyze(t)
  \/ \E t \in BagToSet(threads) : process_store_result(t)
  \/ \E t \in BagToSet(threads) : process_store_midi(t)
  \/ \E t \in BagToSet(threads) : process_update(t)

SpecRecord == Init /\ [][NextRecord]_vars

\* ------------------------------------------------------------------------
\* The scale preview of both apps on every scale of the catalog
\* ------------------------------------------------------------------------

\* the rows that can be selected: every scale of the catalog is displayed
\* for a performance of its own notes under its own root
PreviewNames == {AppScales[i][1] : i \in 1..Len(AppScales)}

InitPlay ==
  /\ AppInit
  /\ source \in {PIANO, GUITAR}
  /\ frames = <<>>
  /\ melody = {}
  /\ pc = "input"
  /\ returned = None
  /\ printed = <<>>

\* play_selected_scale() with the row of full_scale_name selected
play_selected_scale(full_scale_name) ==
  /\ pc = "input"
  /\ LET sequence == preview_sequence(source, full_scale_name)
         sounded == IF source = GUITAR
                    THEN fretboard_play_sequence(sequence)
                    ELSE keyboard_play_sequence(sequence)
     IN  played' = IF sequence = <<>> THEN played
                   ELSE [scale |-> full_scale_name, notes |-> sounded]
  /\ pc' = "played"
  /\ UNCHANGED <<file_path, root_var, last_analysis_result, current_input_midi,
                 tree, keyboard, threads, all_scales_dict, select_vars, rec_vars>>
  /\ UNCHANGED <<source, frames, melody, returned, printed>>

NextPlay == \E full_scale_name \in PreviewNames : play_selected_scale(full_scale_name)

SpecPlay == InitPlay /\ [][NextPlay]_vars

InitDegree ==
  /\ file_path = None
  /\ root_var = NO_ROOT
  /\ last_analysis_result = None
  /\ current_input_midi \in PerformedSets
  /\ tree = <<>>
  /\ keyboard = [input |-> {}, scale |-> {}]
  /\ threads = EmptyBag
  /\ all_scales_dict = AppScales
  /\ lbl_degree_info = LABEL_HINT
  /\ btn_preview_scale = "disabled"
  /\ is_recording = FALSE
  /\ rec_frames = 0
  /\ btn_rec_start = "normal"
  /\ btn_rec_stop = "disabled"
  /\ btn_select = "normal"
  /\ rec_threads = EmptyBag
  /\ played = NO_PREVIEW
  /\ source = "jazz_scale_app"
  /\ frames = <<>>
  /\ melody = {}
  /\ pc = "input"
  /\ returned = None
  /\ printed = <<>>

\* update_degree_display(full_scale_name) on the performed notes
degree_display(full_scale_name) ==
  /\ pc = "input"
  /\ lbl_degree_info' = update_degree_display(full_scale_name, current_input_midi)
  /\ pc' = "shown"
  /\ UNCHANGED <<file_path, root_var, last_analysis_result, current_input_midi,
                 tree, keyboard, threads, all_scales_dict, btn_preview_scale>>
  /\ UNCHANGED <<rec_vars, played>>
  /\ UNCHANGED <<source, frames, melody, returned, printed>>

NextDegree == \E full_scale_name \in DegreeNames : degree_display(full_scale_name)

SpecDegree == InitDegree /\ [][NextDegree]_vars

\* ------------------------------------------------------------------------
\* The matchers on every melody of at most MaxMelody notes
\* ------------------------------------------------------------------------

PitchClasses(notes) == {n % 12 : n \in notes}

InitMatch ==
  /\ AppInit
  /\ source \in {"jazz_scale_app", "scale_detector"}
  /\ frames = <<>>
  /\ melody \in Melodies(MaxMelody)
  /\ (source = "jazz_scale_app" => melody # {})
  /\ pc = "input"
  /\ returned = None
  /\ printed = <<>>

\* analyze_audio from the extracted notes on: it returns its tuple
app_match ==
  /\ source = "jazz_scale_app" /\ pc = "input"
  /\ returned' = match_scales(melody, PitchClasses(melody))
  /\ pc' = "returned"
  /\ UNCHANGED <<source, frames, melody, printed>>
  /\ UNCHANGED app_vars

\* _process_analysis after analyze_audio returned: the three statements that
\* store the result, store the notes and fill the result list
app_show ==
  /\ source = "jazz_scale_app" /\ pc = "returned"
  /\ last_analysis_result' = returned
  /\ current_input_midi' = returned[3]
  /\ update_result_list(returned, root_var, returned[3])
  /\ pc' = "shown"
  /\ UNCHANGED <<file_path, root_var, threads, all_scales_dict, select_vars>>
  /\ UNCHANGED <<rec_vars, played>>
  /\ UNCHANGED <<source, frames, melody, returned, printed>>

\* the root combobox, used once the list is shown
app_root(r) ==
  /\ source = "jazz_scale_app" /\ pc = "shown"
  /\ on_root_changed(r)

\* find_matching_scales on the pitch classes of the melody
detector_match ==
  /\ source = "scale_detector" /\ pc = "input"
  /\ returned' = find_matching_scales(PitchClasses(melody), DetectorScales)
  /\ pc' = "returned"
  /\ UNCHANGED <<source, frames, melody, printed>>
  /\ UNCHANGED app_vars

\* analyze_melody_scale after find_matching_scales: nothing is printed for
\* an empty list
detector_print ==
  /\ source = "scale_detector" /\ pc = "returned"
  /\ printed' = IF returned = <<>> THEN <<>> ELSE print_top(returned)
  /\ pc' = "shown"
  /\ UNCHANGED <<source, frames, melody, returned>>
  /\ UNCHANGED app_vars

NextMatch ==
  \/ app_match
  \/ app_show
  \/ \E r \in Roots : app_root(r)
  \/ detector_match
  \/ detector_print

SpecMatch == InitMatch /\ [][NextMatch]_vars

\* ------------------------------------------------------------------------
\* The extraction on every pitch stream of at most MaxRuns runs
\* ------------------------------------------------------------------------

InitExtract ==
  /\ AppInit
  /\ source \in {"jazz_scale_app", "scale_detector"}
  /\ frames \in Streams(MaxRuns)
  /\ melody = {}
  /\ pc = "input"
  /\ returned = None
  /\ printed = <<>>

\* analyze_audio on the stream
app_extract ==
  /\ source = "jazz_scale_app" /\ pc = "input"
  /\ returned' = analyze_audio(frames)
  /\ pc' = "returned"
  /\ UNCHANGED <<source, frames, melody, printed>>
  /\ UNCHANGED app_vars

\* extract_pitch_classes_from_wav on the stream
detector_extract ==
  /\ source = "scale_detector" /\ pc = "input"
  /\ returned' = extract_pitch_classes_from_wav(frames)
  /\ pc' = "returned"
  /\ UNCHANGED <<source, frames, melody, printed>>
  /\ UNCHANGED app_vars

NextExtract ==
  \/ app_extract
  \/ detector_extract

SpecExtract == InitExtract /\ [][NextExtract]_vars

\* ------------------------------------------------------------------------
\* The extraction on wide streams: many distinct notes, each a small share
\* ------------------------------------------------------------------------

InitWide ==
  /\ AppInit
  /\ source \in {"jazz_scale_app", "scale_detector"}
  /\ frames \in WideStreams
  /\ melody = {}
  /\ pc = "input"
  /\ returned = None
  /\ printed = <<>>

SpecWide == InitWide /\ [][NextExtract]_vars

\* ------------------------------------------------------------------------
\* Properties of the matchers (SpecMatch)
\* ------------------------------------------------------------------------

\* the ranked list a matcher returned and the catalog it ranked
Ranked == IF source = "jazz_scale_app" THEN returned[1] ELSE returned
Catalog == IF source = "jazz_scale_app" THEN AppScales ELSE DetectorScales

\* a matcher has returned a ranking of a non-empty melody
Matched == pc = "returned" /\ melody # {}

\* |P \cap S| / |P|
Ratio(P, S) == (Cardinality(P \cap S) * ScoreUnit) \div Cardinality(P)

\* the scale notes of a ranked entry, looked up by its name
NotesOf(name) == Catalog[CHOOSE i \in 1..Len(Catalog) : Catalog[i][1] = name][2]

\* C1 as stated: every entry of a ranking, in all three programs, has the
\* score |P \cap S| / |P|, which lies in [0, 1]; no entry is adjusted.
C1_ScoreIsRatio ==
  Matched =>
    \A i \in 1..Len(Ranked) :
      /\ Ranked[i][2] = Ratio(PitchClasses(melody), NotesOf(Ranked[i][1]))
      /\ 0 <= Ranked[i][2] /\ Ranked[i][2] <= ScoreUnit

\* C1 as amended: every entry has the score |P \cap S| / |P|, except that
\* find_matching_scales of scale_detector.py gives an entry whose name
\* contains Chromatic 0.99 times that ratio; every score lies in [0, 1].
C1_ScoreIsRatioBut99 ==
  Matched =>
    \A i \in 1..Len(Ranked) :
      LET ratio == Ratio(PitchClasses(melody), NotesOf(Ranked[i][1]))
          adjusted == source = "scale_detector" /\ "Chromatic" \in Range(Ranked[i][1])
      IN  /\ Ranked[i][2] = IF adjusted THEN (99 * ratio) \div 100 ELSE ratio
          /\ 0 <= Ranked[i][2] /\ Ranked[i][2] <= ScoreUnit

\* C1's case: scale_detector on C, E, G: entries that hold none, two and all
\* of the three notes, and the Chromatic entry of C at 0.99
C1_Witness ==
  /\ Matched /\ source = "scale_detector" /\ melody = {60, 64, 67}
  /\ \E i \in 1..Len(Ranked) : Ranked[i][2] = 0
  /\ \E i \in 1..Len(Ranked) :
       /\ Ranked[i][2] = Div(2, 3)
       /\ Cardinality(NotesOf(Ranked[i][1]) \cap {0, 4, 7}) = 2
  /\ \E i \in 1..Len(Ranked) : Ranked[i][2] = ScoreUnit
  /\ \E i \in 1..Len(Ranked) :
       Ranked[i] = << <<"C", "Chromatic">>, (99 * ScoreUnit) \div 100 >>

\* C2 as stated: an entry scores 1.0 exactly when the melody's pitch classes
\* are a subset of its scale notes, in every program.
C2_FullScoreIffSubset ==
  Matched =>
    \A i \in 1..Len(Ranked) :
      (Ranked[i][2] = ScoreUnit) <=>
        (PitchClasses(melody) \subseteq NotesOf(Ranked[i][1]))

\* C2 as amended: an entry other than a Chromatic entry of scale_detector.py
\* scores 1.0 exactly when the melody's pitch classes are a subset of its
\* scale notes; a Chromatic entry of scale_detector.py holds every melody
\* and scores 0.99.
C2_FullScoreIffSubsetBut99 ==
  Matched =>
    \A i \in 1..Len(Ranked) :
      IF source = "scale_detector" /\ "Chromatic" \in Range(Ranked[i][1])
      THEN /\ PitchClasses(melody) \subseteq NotesOf(Ranked[i][1])
           /\ Ranked[i][2] = (99 * ScoreUnit) \div 100
      ELSE (Ranked[i][2] = ScoreUnit) <=>
             (PitchClasses(melody) \subseteq NotesOf(Ranked[i][1]))

\* C2's case: the app's matcher on C, E, G gives C Ionian, C Lydian and
\* C Mixo-lydian 1.00 and C Dorian, which lacks E, less
C2_Witness ==
  /\ Matched /\ source = "jazz_scale_app" /\ melody = {60, 64, 67}
  /\ \A nm \in {<<"C", "Ionian", "(Major)">>, <<"C", "Lydian">>, <<"C", "Mixo-lydian">>} :
       \E i \in 1..Len(Ranked) : Ranked[i] = <<nm, ScoreUnit>>
  /\ \E i \in 1..Len(Ranked) :
       Ranked[i][1] = <<"C", "Dorian">> /\ Ranked[i][2] < ScoreUnit

\* the place of a name in the declaration order of the catalog: the roots
\* C, C#, ..., B in turn, and for one root the patterns as declared
DeclIndex(name) ==
  LET patterns == IF source = "jazz_scale_app" THEN SCALE_PATTERNS
                  ELSE DETECTOR_SCALE_PATTERNS
      root == CHOOSE r \in 1..12 : NOTE_NAMES[r] = Head(name)
      pat == CHOOSE k \in 1..Len(patterns) : patterns[k][1] = Tail(name)
  IN  (root - 1) * Len(patterns) + pat

\* C3: a ranking holds every catalog entry exactly once, by score
\* descending, entries of equal score in the declaration order of the catalog.
C3_RankedStable ==
  Matched =>
    /\ Len(Ranked) = Len(Catalog)
    /\ {Ranked[i][1] : i \in 1..Len(Ranked)} = {Catalog[i][1] : i \in 1..Len(Catalog)}
    /\ Cardinality({Ranked[i][1] : i \in 1..Len(Ranked)}) = Len(Ranked)
    /\ \A i \in 1..(Len(Ranked) - 1) :
         \/ Ranked[i][2] > Ranked[i + 1][2]
         \/ /\ Ranked[i][2] = Ranked[i + 1][2]
            /\ DeclIndex(Ranked[i][1]) < DeclIndex(Ranked[i + 1][1])

\* C3's case: the app's ranking of C, E, G starts with C Ionian and C Lydian,
\* both 1.00 and in declaration order, and ends with a lower score
C3_Witness ==
  /\ Matched /\ source = "jazz_scale_app" /\ melody = {60, 64, 67}
  /\ Ranked[1] = << <<"C", "Ionian", "(Major)">>, ScoreUnit >>
  /\ Ranked[2] = << <<"C", "Lydian">>, ScoreUnit >>
  /\ Ranked[Len(Ranked)][2] < ScoreUnit

\* ------------------------------------------------------------------------
\* Properties of the displayed list (SpecMatch, Spec)
\* ------------------------------------------------------------------------

\* the list a program displays: rows <<rank, name, score in percent>>
Rows == IF source = "jazz_scale_app" THEN tree ELSE printed

\* the program has displayed the ranking of the melody
Shown == pc = "shown"
AppShown == Shown /\ source = "jazz_scale_app"

\* C4 as stated: the first row has rank 1, a row with the score of the row
\* before it has the same rank, any other row the rank before plus one.
C4_RankPlusOne ==
  Shown =>
    /\ Rows # <<>> => Rows[1][1] = 1
    /\ \A i \in 2..Len(Rows) :
         Rows[i][1] = IF Rows[i][3] = Rows[i - 1][3] THEN Rows[i - 1][1]
                      ELSE Rows[i - 1][1] + 1

\* C4 as amended: the first row has rank 1, a row with the score of the row
\* before it has the same rank, any other row has its own position in the
\* displayed list as rank (1, 1, 3, 4, 4, 6).
C4_RankIsPosition ==
  Shown =>
    /\ Rows # <<>> => Rows[1][1] = 1
    /\ \A i \in 2..Len(Rows) :
         Rows[i][1] = IF Rows[i][3] = Rows[i - 1][3] THEN Rows[i - 1][1] ELSE i

\* C4's case: C and C# with root C selected: five C scales hold both notes
\* and share rank 1, the sixth row holds one of them and has rank 6
C4_Witness ==
  /\ AppShown /\ melody = {60, 61} /\ root_var = "C"
  /\ Len(tree) > 6
  /\ tree[5][1] = 1 /\ tree[5][3] = 100
  /\ tree[6][1] = 6 /\ tree[6][3] = 50
  /\ tree[7][1] = 6

\* C5: in a displayed list the scores never increase, the ranks never
\* decrease, and the rank changes only where the score changes.
C5_RankMonotone ==
  Shown =>
    \A i \in 2..Len(Rows) :
      /\ Rows[i][3] <= Rows[i - 1][3]
      /\ Rows[i][1] >= Rows[i - 1][1]
      /\ Rows[i][1] # Rows[i - 1][1] => Rows[i][3] # Rows[i - 1][3]

\* C5's case: a list under a selected root with a tie and a drop of the score
C5_Witness ==
  /\ AppShown /\ root_var # NO_ROOT
  /\ \E i \in 2..Len(tree) : tree[i][1] = tree[i - 1][1] /\ tree[i][3] = tree[i - 1][3]
  /\ \E i \in 2..Len(tree) : tree[i][1] > tree[i - 1][1] /\ tree[i][3] < tree[i - 1][3]

\* the stored ranked list, and its entries under the selected root
Stored == last_analysis_result[1]
UnderRoot(scales, root) ==
  SelectSeq(scales, LAMBDA e : root = NO_ROOT \/ Head(e[1]) = root)

\* the length of the longest prefix of a list that has at most DISPLAY_LIMIT
\* entries, each scoring 0.5 or more
Cut(scales) ==
  MaxOf({k \in 0..Len(scales) :
           /\ k <= DISPLAY_LIMIT
           /\ \A i \in 1..k : 2 * scales[i][2] >= ScoreUnit})

\* C6: the result list shows exactly the longest prefix of the ranked list
\* under the selected root that has at most 20 entries, each scoring 0.5 or
\* more: no row is below 50%, there are at most 20 rows, a 0.5 entry stays.
C6_LongestPrefix ==
  AppShown =>
    LET under == UnderRoot(Stored, root_var)
    IN  /\ Len(tree) = Cut(under)
        /\ \A i \in 1..Len(tree) : tree[i][2] = under[i][1]
        /\ Len(tree) <= 20
        /\ \A i \in 1..Len(tree) : tree[i][3] >= 50

\* C6's case: C and C# with root D selected: rows at exactly 50% are shown
\* and the D scales that hold neither note are cut off
C6_Witness ==
  /\ AppShown /\ melody = {60, 61} /\ root_var = "D"
  /\ \E i \in 1..Len(tree) : tree[i][3] = 50
  /\ 0 < Len(tree) /\ Len(tree) < Len(UnderRoot(Stored, root_var))

\* the place of a name in the stored ranked list
StoredIndex(name) == CHOOSE i \in 1..Len(Stored) : Stored[i][1] = name

\* C7: with a root selected every row is a scale of exactly that root, the
\* rows keep the order of the stored ranked list, and the ranks are those of
\* the rows alone (the first is 1, none exceeds its row number); with no
\* root selected the rows are the first entries of the stored list.
C7_RootFilter ==
  AppShown =>
    /\ root_var # NO_ROOT => \A i \in 1..Len(tree) : Head(tree[i][2]) = root_var
    /\ \A i \in 2..Len(tree) : StoredIndex(tree[i - 1][2]) < StoredIndex(tree[i][2])
    /\ tree # <<>> => tree[1][1] = 1
    /\ \A i \in 1..Len(tree) : tree[i][1] <= i
    /\ root_var = NO_ROOT => \A i \in 1..Len(tree) : tree[i][2] = Stored[i][1]

\* C7's case: C and C# with root C selected: C# Ionian scores 1.00 in the
\* stored list, yet the 18 rows are the C scales, the first with rank 1
C7_Witness ==
  /\ AppShown /\ melody = {60, 61} /\ root_var = "C"
  /\ \E i \in 1..Len(Stored) : Stored[i] = << <<"C#", "Ionian", "(Major)">>, ScoreUnit >>
  /\ Len(tree) = 18
  /\ tree[1][1] = 1 /\ Head(tree[1][2]) = "C"

\* the rows a ranked list and a root determine: the entries under the root,
\* cut, each with one more than the number of entries that score higher
RowsFor(scales, root) ==
  LET under == UnderRoot(scales, root)
  IN  [i \in 1..Cut(under) |->
         << 1 + Cardinality({j \in 1..Cut(under) : under[j][2] > under[i][2]}),
            under[i][1],
            Percent(under[i][2]) >>]

\* C8: once the analysis threads have ended, the displayed list depends only
\* on the stored result and the selected root, whatever roots were selected
\* before: the same root a second time, or no root again, shows the list it
\* showed the first time.
C8_ListFromResultAndRoot ==
  (threads = EmptyBag /\ last_analysis_result # None) =>
    tree = RowsFor(Stored, root_var)

\* C8's case: a root is selected after an analysis has ended, and rows show
C8_Witness ==
  /\ threads = EmptyBag /\ last_analysis_result # None
  /\ root_var = "C#" /\ tree # <<>>
  /\ current_input_midi = {60, 61}

\* ------------------------------------------------------------------------
\* Properties of the extraction (SpecExtract)
\* ------------------------------------------------------------------------

\* an extraction has returned
Extracted == pc = "returned"

\* the runs of the stream with a defined frequency and a confidence strictly
\* above 0.5
Surviving == {i \in 1..Len(frames) : ~frames[i].nan /\ frames[i].prob > 50}

\* the number of surviving frames of an absolute note, and of all notes
CountOf(n) ==
  LET RECURSIVE Sum(_)
      Sum(S) == IF S = {} THEN 0
                ELSE LET i == CHOOSE j \in S : TRUE
                     IN  (IF frames[i].midi = n THEN frames[i].n ELSE 0) + Sum(S \ {i})
  IN  Sum(Surviving)
Total ==
  LET RECURSIVE Sum(_)
      Sum(S) == IF S = {} THEN 0
                ELSE LET i == CHOOSE j \in S : TRUE
                     IN  frames[i].n + Sum(S \ {i})
  IN  Sum(Surviving)

\* C9 as stated: when no observation survives, every extraction reports a
\* failure to its caller and returns no empty result.
C9_NoPitchFails ==
  (Extracted /\ Surviving = {}) =>
    IF source = "jazz_scale_app" THEN returned[1] = None ELSE returned # {}

\* C9 as amended: when no observation survives (one at exactly 0.5 does
\* not), analyze_audio returns no scales, the message and no notes, and
\* extract_pitch_classes_from_wav returns the empty set; when an observation
\* survives neither result is empty, so the empty set marks the failure.
C9_NoPitchFailsOrEmptySet ==
  Extracted =>
    IF source = "jazz_scale_app"
    THEN /\ Surviving = {} <=> returned[1] = None
         /\ returned[1] = None =>
              returned[2] = "no valid pitch detected" /\ returned[3] = None
         /\ returned[1] # None => returned[1] # <<>> /\ returned[3] # {}
    ELSE Surviving = {} <=> returned = {}

\* C9's case: every frame of the stream is at 0.2 or at exactly 0.5, and
\* analyze_audio has returned the failure
C9_Witness ==
  /\ Extracted /\ source = "jazz_scale_app"
  /\ Len(frames) = 2
  /\ ~frames[1].nan /\ frames[1].prob = 20
  /\ ~frames[2].nan /\ frames[2].prob = 50
  /\ returned[1] = None

\* the absolute notes whose count is at least 2% of the surviving frames
WellSupported == {n \in 0..127 : CountOf(n) > 0 /\ CountOf(n) * 100 >= 2 * Total}

\* C10: provided a note reaches the support threshold, the notes
\* analyze_audio returns are exactly those whose count among the surviving
\* frames is at least 0.02 * total: a count equal to the threshold is kept,
\* one below it is dropped.
C10_SupportedNotes ==
  (Extracted /\ source = "jazz_scale_app" /\ WellSupported # {}) =>
    returned[3] = WellSupported

\* C10's case: 100 frames of note 60 and one frame of note 61 give {60}
C10_Witness ==
  /\ Extracted /\ source = "jazz_scale_app"
  /\ frames = << [nan |-> FALSE, midi |-> 60, prob |-> 90, n |-> 100],
                 [nan |-> FALSE, midi |-> 61, prob |-> 90, n |-> 1] >>
  /\ returned[3] = {60}

\* ------------------------------------------------------------------------
\* Properties of the extraction on wide streams (SpecWide)
\* ------------------------------------------------------------------------

\* the absolute notes with a surviving frame, and the first surviving run of
\* a note
Heard == {frames[i].midi : i \in Surviving}
FirstRun(n) == MinOf({i \in Surviving : frames[i].midi = n})

\* note n comes before note m in the order of frequency: more frames, or as
\* many and heard first
MoreCommon(n, m) ==
  LET cn == CountOf(n)
      cm == CountOf(m)
  IN  cn > cm \/ (cn = cm /\ FirstRun(n) < FirstRun(m))

\* C11: when an observation survives, the extraction returns a non-empty
\* set.  In analyze_audio, if no absolute note reaches the support threshold
\* the notes returned are the 5 most frequent ones (all of them if fewer
\* than 5 were heard; of equally frequent notes those heard first), and
\* otherwise they are the notes that reach the threshold.
C11_FallbackTopFive ==
  (Extracted /\ Surviving # {}) =>
    IF source = "jazz_scale_app"
    THEN LET notes == returned[3]
         IN  /\ notes # {}
             /\ IF WellSupported = {}
                THEN /\ notes \subseteq Heard
                     /\ Cardinality(notes) =
                          (IF Cardinality(Heard) < 5 THEN Cardinality(Heard) ELSE 5)
                     /\ \A n \in notes : \A m \in Heard \ notes : MoreCommon(n, m)
                ELSE notes = WellSupported
    ELSE returned # {}

\* C11's case: 3 notes of one frame each, then 49 notes of two frames each:
\* no note has 2% of the 101 frames, and the notes returned are the first
\* five of the frequent ones, not the five heard first
C11_Witness ==
  /\ Extracted /\ source = "jazz_scale_app"
  /\ frames = WideStream(52, 49, 2, 1, FALSE, FALSE)
  /\ WellSupported = {}
  /\ returned[3] = {36, 37, 38, 39, 40}

\* C12: on every successful extraction of analyze_audio, by the support
\* threshold or by the fallback, the pitch classes the scales are scored
\* against and the note names returned are those of { n mod 12 } for the
\* notes n returned.
C12_PitchClassesOfNotes ==
  (Extracted /\ source = "jazz_scale_app" /\ returned[1] # None) =>
    LET pcs == {n % 12 : n \in returned[3]}
    IN  /\ \A i \in 1..Len(returned[1]) :
             returned[1][i][2] = Ratio(pcs, NotesOf(returned[1][i][1]))
        /\ Range(returned[2]) = {NOTE_NAMES[p + 1] : p \in pcs}

\* C12's case: the fallback on 51 notes of one frame each, downwards from
\* C6: the notes are G#5..C6, and C Ionian holds three of their five pitch
\* classes
C12_Witness ==
  /\ Extracted /\ source = "jazz_scale_app"
  /\ frames = WideStream(51, 0, 1, 1, TRUE, FALSE)
  /\ WellSupported = {}
  /\ returned[3] = {80, 81, 82, 83, 84}
  /\ \E i \in 1..Len(returned[1]) :
       returned[1][i] = << <<"C", "Ionian", "(Major)">>, Div(3, 5) >>

\* ------------------------------------------------------------------------
\* Properties of the catalog and of the matchers (SpecMatch)
\* ------------------------------------------------------------------------

\* the pattern table of the program
Patterns ==
  IF source = "jazz_scale_app" THEN SCALE_PATTERNS ELSE DETECTOR_SCALE_PATTERNS

\* a matcher has returned, whatever the melody: it has generated or been
\* handed the catalog
Returned == pc = "returned"

\* C13: the catalog has exactly 12 * |SCALE_PATTERNS| entries, the one of
\* root r and pattern k at place r * |SCALE_PATTERNS| + k, under the key
\* "<NOTE_NAMES[r]> <pattern name>" with the notes (r + offset) mod 12, and
\* no two entries have the same key.
C13_CatalogComplete ==
  Returned =>
    LET np == Len(Patterns)
    IN  /\ Len(Catalog) = 12 * np
        /\ \A r \in 0..11 : \A k \in 1..np :
             Catalog[r * np + k] =
               << <<NOTE_NAMES[r + 1]>> \o Patterns[k][1],
                  {(r + Patterns[k][2][j]) % 12 : j \in 1..Len(Patterns[k][2])} >>
        /\ Cardinality({Catalog[i][1] : i \in 1..Len(Catalog)}) = Len(Catalog)

\* C13's case: scale_detector has ranked all 228 entries of its catalog,
\* B Chromatic among them
C13_Witness ==
  /\ source = "scale_detector" /\ pc = "returned" /\ melody = {71}
  /\ Len(Catalog) = 228 /\ Len(returned) = 228
  /\ Catalog[12 * 19 - 5] = << <<"B", "Chromatic">>, 0..11 >>

\* C14: every scale of the catalog has as many notes as its pattern has
\* offsets: no two offsets of a pattern are equal modulo 12.
C14_NoOffsetCollision ==
  Returned =>
    LET np == Len(Patterns)
    IN  \A r \in 0..11 : \A k \in 1..np :
          /\ Cardinality(Catalog[r * np + k][2]) = Len(Patterns[k][2])
          /\ \A i, j \in 1..Len(Patterns[k][2]) :
               i # j => Patterns[k][2][i] % 12 # Patterns[k][2][j] % 12

\* C14's case: the app has ranked its catalog; B Bebop Dominant has the 8
\* notes of its 8 offsets
C14_Witness ==
  /\ source = "jazz_scale_app" /\ pc = "returned"
  /\ Catalog[11 * 18 + 17][1] = <<"B", "Bebop", "Dominant">>
  /\ Cardinality(Catalog[11 * 18 + 17][2]) = 8
  /\ Len(SCALE_PATTERNS[17][2]) = 8

\* C17 as stated: a matcher handed an empty set of pitch classes fails: it
\* returns neither an empty ranking nor a ranking of scores that are all 0.
C17_EmptyInputFails ==
  (Returned /\ melody = {}) =>
    /\ Ranked # <<>>
    /\ \E i \in 1..Len(Ranked) : Ranked[i][2] # 0

\* C17 as amended: find_matching_scales handed an empty set returns the
\* empty ranking, and analyze_melody_scale then prints no entry; a ranking
\* is empty only then, and the ranking of a non-empty set has an entry with
\* a score above 0.
C17_EmptyInputEmptyRanking ==
  /\ Returned => (melody = {} <=> Ranked = <<>>)
  /\ (Returned /\ melody # {}) => \E i \in 1..Len(Ranked) : Ranked[i][2] > 0
  /\ (Shown /\ melody = {}) => Rows = <<>>

\* C17's case: find_matching_scales has returned [] for the empty set
C17_Witness ==
  /\ Returned /\ source = "scale_detector" /\ melody = {}
  /\ returned = <<>>

\* the major scale of C# in the catalog of the program
CSharpMajor ==
  IF source = "jazz_scale_app" THEN <<"C#", "Ionian", "(Major)">> ELSE <<"C#", "Major">>

\* C18 as stated: against the pitch classes {0, 4, 7} the major scale of C#
\* scores 0.
C18_CSharpMajorScoresZero ==
  (Matched /\ PitchClasses(melody) = {0, 4, 7}) =>
    \A i \in 1..Len(Ranked) : Ranked[i][1] = CSharpMajor => Ranked[i][2] = 0

\* C18 as amended: against the pitch classes {0, 4, 7} the major scale of
\* C#, {0, 1, 3, 5, 6, 8, 10}, holds the pitch class 0 and scores 1/3.
C18_CSharpMajorScoresThird ==
  (Matched /\ PitchClasses(melody) = {0, 4, 7}) =>
    /\ NotesOf(CSharpMajor) = {0, 1, 3, 5, 6, 8, 10}
    /\ \E i \in 1..Len(Ranked) : Ranked[i][1] = CSharpMajor
    /\ \A i \in 1..Len(Ranked) : Ranked[i][1] = CSharpMajor => Ranked[i][2] = Div(1, 3)

\* C18's case: scale_detector has ranked C, E, G and C# Major is at 1/3
C18_Witness ==
  /\ Matched /\ source = "scale_detector" /\ melody = {60, 64, 67}
  /\ \E i \in 1..Len(Ranked) : Ranked[i] = << <<"C#", "Major">>, Div(1, 3) >>

\* ------------------------------------------------------------------------
\* Properties of the degree display (SpecDegree)
\* ------------------------------------------------------------------------

\* the table of degree labels, from the root upwards in semitones
DegreeTable ==
  <<"R", "b9", "9", "b3", "3", "11", "#11/b5", "5", "b13", "13", "b7", "7">>

\* the degree label of a pitch class relative to a root
DegreeLabel(pitch_class, r) == DegreeTable[((pitch_class - r) % 12) + 1]

\* the index 0..11 of a note name
NameIndex(name) == (CHOOSE i \in 1..12 : NOTE_NAMES[i] = name) - 1

\* the degree display has filled the label
Labelled == pc = "shown" /\ lbl_degree_info.kind = "degrees"

\* C15: the degree label shown for a note of pitch class pc under a scale
\* of root r is the entry (pc - r) mod 12 of the table R, b9, 9, b3, 3, 11,
\* #11/b5, 5, b13, 13, b7, 7, whatever the pattern of the scale; it is
\* never the placeholder "?", and the display never fails.
C15_DegreeLabelFromTable ==
  pc = "shown" =>
    /\ lbl_degree_info.kind = "degrees"
    /\ LET parts == lbl_degree_info.parts
           r == NameIndex(Head(lbl_degree_info.scale))
       IN  /\ \A n \in current_input_midi :
                \E i \in 1..Len(parts) : parts[i][1] = NOTE_NAMES[(n % 12) + 1]
           /\ \A i \in 1..Len(parts) :
                /\ parts[i][3] = DegreeLabel(NameIndex(parts[i][1]), r)
                /\ parts[i][3] # "?"

\* C15's case: G and C# under C Harmonic Minor: G is "5" and C# is "b9"
C15_Witness ==
  /\ Labelled /\ current_input_midi = {55, 61}
  /\ lbl_degree_info.scale = <<"C", "Harmonic", "Minor">>
  /\ lbl_degree_info.parts[1][1] = "G" /\ lbl_degree_info.parts[1][3] = "5"
  /\ lbl_degree_info.parts[2][1] = "C#" /\ lbl_degree_info.parts[2][3] = "b9"

\* the i-th of a set of notes in ascending order
Nth(S, i) == CHOOSE n \in S : Cardinality({m \in S : m < n}) = i - 1

\* C16: the degree display has one part for every performed note, in
\* strictly ascending order of the notes, each with the name of the note's
\* pitch class and its degree label under the root of the scale; notes an
\* octave apart have a part each, with the same label.
C16_AnnotationPerNote ==
  pc = "shown" =>
    /\ lbl_degree_info.kind = "degrees"
    /\ Len(lbl_degree_info.parts) = Cardinality(current_input_midi)
    /\ \A i \in 1..Len(lbl_degree_info.parts) :
         LET n == Nth(current_input_midi, i)
             part == lbl_degree_info.parts[i]
         IN  /\ part[1] = NOTE_NAMES[(n % 12) + 1]
             /\ part[3] = DegreeLabel(n % 12, NameIndex(Head(lbl_degree_info.scale)))

\* C16's case: G3 and G4 under D Ionian: two parts, both G and both "11"
C16_Witness ==
  /\ Labelled /\ current_input_midi = {55, 67}
  /\ lbl_degree_info.scale = <<"D", "Ionian", "(Major)">>
  /\ Len(lbl_degree_info.parts) = 2
  /\ lbl_degree_info.parts[1][1] = "G" /\ lbl_degree_info.parts[1][3] = "11"
  /\ lbl_degree_info.parts[2][1] = "G" /\ lbl_degree_info.parts[2][3] = "11"
  /\ lbl_degree_info.parts[1][2] < lbl_degree_info.parts[2][2]

\* ------------------------------------------------------------------------
\* Properties of the analysis runs (Spec, SpecSelect)
\* ------------------------------------------------------------------------

\* C21 as stated: the octave the degree display reports for a performed
\* note n is n div 12.
C21_OctaveIsQuotient ==
  pc = "shown" =>
    /\ lbl_degree_info.kind = "degrees"
    /\ \A i \in 1..Len(lbl_degree_info.parts) :
         lbl_degree_info.parts[i][2] = Nth(current_input_midi, i) \div 12

\* C21, amended: the octave the degree display reports for a performed note
\* n is n div 12 - 1, the octave number of the note's usual name (note 60 is
\* C4), one less than the octave n div 12 of the data model.
C21_OctaveIsQuotientLessOne ==
  pc = "shown" =>
    /\ lbl_degree_info.kind = "degrees"
    /\ \A i \in 1..Len(lbl_degree_info.parts) :
         lbl_degree_info.parts[i][2] = (Nth(current_input_midi, i) \div 12) - 1

\* C21's case: B3 and C4 under A Altered: note 59 is in octave 3 and note
\* 60 in octave 4
C21_Witness ==
  /\ Labelled /\ current_input_midi = {59, 60}
  /\ Head(lbl_degree_info.scale) = "A"
  /\ lbl_degree_info.parts[1][1] = "B" /\ lbl_degree_info.parts[1][2] = 3
  /\ lbl_degree_info.parts[2][1] = "C" /\ lbl_degree_info.parts[2][2] = 4

\* C19: once every analysis thread has ended, the stored result, the
\* performed notes and the displayed list are those of the run started
\* last, the analysis of the file selected last; if that analysis found no
\* pitch, no result of an earlier run is stored or displayed.
C19_LatestRunWins ==
  (threads = EmptyBag /\ file_path # None) =>
    LET latest == analyze_audio(file_path)
    IN  IF latest[1] = None
        THEN last_analysis_result = None /\ tree = <<>>
        ELSE /\ last_analysis_result = latest
             /\ current_input_midi = latest[3]
             /\ tree = RowsFor(latest[1], root_var)

\* C20: a step that is not a step of an analysis run (the start of a run or
\* a step of its thread) leaves the stored ranked list and the performed
\* notes unchanged: so do changing the root, filling the result list anew,
\* selecting a scale and computing the degree labels; and no step changes
\* the catalog.
C20_ReadOnlyInputs ==
  [][/\ threads' = threads =>
          /\ last_analysis_result' = last_analysis_result
          /\ current_input_midi' = current_input_midi
     /\ all_scales_dict' = all_scales_dict]_vars

\* C20's case: after an analysis of C and C#, the root F is selected and
\* then the first row: keyboard and degree label show the scale, the stored
\* list and the notes are those of the analysis
C20_Witness ==
  /\ threads = EmptyBag /\ root_var = "F"
  /\ btn_preview_scale = "normal"
  /\ lbl_degree_info.kind = "degrees" /\ Head(lbl_degree_info.scale) = "F"
  /\ keyboard.scale # {}
  /\ current_input_midi = {60, 61}
  /\ last_analysis_result = analyze_audio(file_path)
  /\ all_scales_dict = AppScales

\* C22: whenever a result is stored, the performed notes kept for the
\* highlighting and the degree labels are the notes of that stored result,
\* also while analysis threads interleave their assignments.
C22_NotesOfStoredResult ==
  last_analysis_result # None => current_input_midi = last_analysis_result[3]

\* the run started last has ended and its analysis found no ranked list
FailedRun ==
  /\ threads = EmptyBag /\ file_path # None
  /\ analyze_audio(file_path)[1] = None

\* C23: after an analysis run that overlapped no other run has failed, and
\* until the next run starts, the result list is empty, no performed note
\* is highlighted and no result is stored, so that a change of the root
\* shows nothing of an earlier successful run.
C23_FailedRunShowsNothing ==
  FailedRun =>
    /\ tree = <<>>
    /\ keyboard = [input |-> {}, scale |-> {}]
    /\ last_analysis_result = None
    /\ btn_preview_scale = "disabled" /\ lbl_degree_info = LABEL_HINT

\* C23's case: the triad was analysed, then the file with no voiced frame;
\* the root is set to C, under which the triad had rows, and nothing shows
C23_Witness ==
  /\ FailedRun /\ current_input_midi = {60, 64, 67} /\ root_var = "C"
  /\ \E f \in AudioFiles :
       LET result == analyze_audio(f)
       IN  /\ result[1] # None /\ result[3] = current_input_midi
           /\ RowsFor(result[1], root_var) # <<>>
  /\ tree = <<>> /\ keyboard.input = {}

\* ------------------------------------------------------------------------
\* Properties of the recorder (SpecRecord)
\* ------------------------------------------------------------------------

\* C24: whenever no recording thread is alive, so also after every
\* recording session has ended, by its normal path or by its except branch,
\* the controls are idle: is_recording is false, the record button enabled,
\* the stop button disabled and the open-file button enabled.
C24_IdleAfterRecording ==
  rec_threads = EmptyBag =>
    /\ is_recording = FALSE
    /\ btn_rec_start = "normal"
    /\ btn_rec_stop = "disabled"
    /\ btn_select = "normal"

\* ------------------------------------------------------------------------
\* Properties of the scale preview (SpecPlay)
\* ------------------------------------------------------------------------

\* the pattern of a scale name of the catalog
PatternOf(full_scale_name) ==
  SCALE_PATTERNS[CHOOSE k \in 1..Len(SCALE_PATTERNS) :
                   SCALE_PATTERNS[k][1] = Tail(full_scale_name)][2]

\* a preview has been played
Previewed == pc = "played"

\* C25: the preview of a catalog scale of root r and pattern p sounds, in
\* order, one note for every offset o of p, of pitch class (r + o) mod 12,
\* and then the note an octave above the first one; no note is skipped.
C25_PreviewPlaysTheScale ==
  Previewed =>
    LET p == PatternOf(played.scale)
        r == (CHOOSE i \in 1..12 : NOTE_NAMES[i] = Head(played.scale)) - 1
    IN  /\ played.scale # <<>>
        /\ Len(played.notes) = Len(p) + 1
        /\ \A i \in 1..Len(p) : played.notes[i] % 12 = (r + p[i]) % 12
        /\ played.notes[Len(p) + 1] = played.notes[1] + 12

====
